---- MODULE Spec2Model ----
(***************************************************************************)
(* A model of the DNS server of ivanbgd/dns-server-rust: the deku-derived  *)
(* wire codec of message.rs, parse_question and handle_request of conn.rs  *)
(* and main_loop of main.rs.  Bytes are integers 0..255, datagrams are     *)
(* sequences of bytes; offsets are 0-based as in the Rust code, sequence   *)
(* indexes 1-based.                                                        *)
(***************************************************************************)
EXTENDS Integers, Sequences, FiniteSets, TLC

\* ------------------------------------------------------------ constants

\* constants.rs: BUFFER_LEN = 1 << 9
BUFFER_LEN == 512
\* constants.rs: TTL = 60
TTL == 60
\* constants.rs: ARBITRARY_IPV4
ARBITRARY_IPV4 == <<192, 168, 1, 1>>
\* message.rs: "A header's length is always 12 bytes."
HEADER_LEN == 12
\* conn.rs: a byte that "begins with 0b11, meaning it's >= 192"
PTR_MIN == 192

\* ------------------------------------------------------------ bytes

\* A buffer is a byte array of len bytes: the bytes of data, then zeros.
\* buf[off]
At(buf, off) == IF off < Len(buf.data) THEN buf.data[off + 1] ELSE 0

\* history: the datagram of the request main_loop handled before this one, <<>>
\* when there was none (the program keeps nothing of it; kept to speak of it)
VARIABLE prev

\* a faulty buf, for comparison: the array is not zeroed, what the request
\* before left past the received bytes is still there
BufNotZeroed(d) ==
    [data |-> SubSeq(d, 1, IF Len(d) <= BUFFER_LEN THEN Len(d) ELSE BUFFER_LEN)
              \o SubSeq(prev, Len(d) + 1, Len(prev)),
     len |-> BUFFER_LEN]

\* let mut buf = [0u8; BUFFER_LEN]; recv_from(&mut buf): a zeroed array of
\* BUFFER_LEN bytes holding the datagram d (cut to the array's length)
Buf(d) ==
    [data |-> SubSeq(d, 1, IF Len(d) <= BUFFER_LEN THEN Len(d) ELSE BUFFER_LEN),
     len |-> BUFFER_LEN]

\* a slice of exactly the bytes d
Exact(d) == [data |-> d, len |-> Len(d)]

\* u16::from_be_bytes([hi, lo])
U16(hi, lo) == hi * 256 + lo

\* a u16 written big-endian
BE16(v) == <<(v \div 256) % 256, v % 256>>

\* a u32 written big-endian
BE32(v) == <<(v \div 16777216) % 256, (v \div 65536) % 256, (v \div 256) % 256, v % 256>>

\* u32::from_be_bytes; the model keeps values below 2^31, the largest integer TLC holds
U32(b3, b2, b1, b0) == ((b3 * 256 + b2) * 256 + b1) * 256 + b0

\* buf[from..to) as a sequence of bytes (0-based, half-open)
Slice(buf, from, to) == [i \in 1..(to - from) |-> At(buf, from + i - 1)]

\* the first n bytes of the sequence d
Take(d, n) == [i \in 1..n |-> d[i]]

RECURSIVE Flatten(_)
Flatten(ss) == IF ss = <<>> THEN <<>> ELSE Head(ss) \o Flatten(Tail(ss))

\* ------------------------------------------------------------ enums (message.rs)

\* Qr: ids 0 and 1 on one bit
QrOfId(i) == IF i = 0 THEN "Query" ELSE "Response"
QrId(v) == IF v = "Query" THEN 0 ELSE 1

\* OpCode: Query = 0, InverseQuery = 1, Status = 2 and Reserved, which has no id
\* of its own: deku matches and writes it by its discriminant, 3.  Any other
\* 4-bit value matches no variant and the read fails.
OpCodeIds == {0, 1, 2, 3}
OpCodeOfId(i) ==
    CASE i = 0 -> "Query" [] i = 1 -> "InverseQuery" [] i = 2 -> "Status" [] OTHER -> "Reserved"
OpCodeId(v) ==
    CASE v = "Query" -> 0 [] v = "InverseQuery" -> 1 [] v = "Status" -> 2 [] OTHER -> 3
OpCodes == {"Query", "InverseQuery", "Status", "Reserved"}

\* ResponseCode: 0..5 and Reserved (discriminant 6)
ResponseCodeIds == {0, 1, 2, 3, 4, 5, 6}
ResponseCodes ==
    {"NoError", "FormatError", "ServerFailure", "NameError", "NotImplemented", "Refused", "Reserved"}
ResponseCodeOfId(i) ==
    CASE i = 0 -> "NoError" [] i = 1 -> "FormatError" [] i = 2 -> "ServerFailure"
      [] i = 3 -> "NameError" [] i = 4 -> "NotImplemented" [] i = 5 -> "Refused"
      [] OTHER -> "Reserved"
ResponseCodeId(v) ==
    CASE v = "NoError" -> 0 [] v = "FormatError" -> 1 [] v = "ServerFailure" -> 2
      [] v = "NameError" -> 3 [] v = "NotImplemented" -> 4 [] v = "Refused" -> 5
      [] OTHER -> 6

\* Qtype / Type: A = 1, NS = 2, MX = 15
QtypeIds == {1, 2, 15}
QtypeOfId(i) == CASE i = 1 -> "A" [] i = 2 -> "NS" [] OTHER -> "MX"
QtypeId(v) == CASE v = "A" -> 1 [] v = "NS" -> 2 [] OTHER -> 15
Qtypes == {"A", "NS", "MX"}

\* Qclass / Class: IN = 1
QclassIds == {1}
QclassOfId(i) == "IN"
QclassId(v) == 1

\* ------------------------------------------------------------ Header codec

\* a faulty encoder, for comparison: the aa and rd bits change places
WriteHeaderBitsSwapped(h) ==
    BE16(h.id)
    \o << QrId(h.qr) * 128 + OpCodeId(h.opcode) * 8 + h.rd * 4 + h.tc * 2 + h.aa,
          h.ra * 128 + h.z * 16 + ResponseCodeId(h.rcode) >>
    \o BE16(h.qdcount) \o BE16(h.ancount) \o BE16(h.nscount) \o BE16(h.arcount)

\* #[derive(DekuWrite)] Header: the fields in declaration order, bit-packed
WriteHeader(h) ==
    BE16(h.id)
    \o << QrId(h.qr) * 128 + OpCodeId(h.opcode) * 8 + h.aa * 4 + h.tc * 2 + h.rd,
          h.ra * 128 + h.z * 16 + ResponseCodeId(h.rcode) >>
    \o BE16(h.qdcount) \o BE16(h.ancount) \o BE16(h.nscount) \o BE16(h.arcount)

\* #[derive(DekuRead)] Header::from_bytes((buf, 0)): fails when fewer than 12
\* bytes are there or an enum id matches no variant
ReadHeader(buf) ==
    IF buf.len < HEADER_LEN THEN [ok |-> FALSE]
    ELSE LET f1 == At(buf, 2)
             f2 == At(buf, 3)
             op == (f1 \div 8) % 16
             rc == f2 % 16
         IN  IF op \notin OpCodeIds \/ rc \notin ResponseCodeIds THEN [ok |-> FALSE]
             ELSE [ok |-> TRUE,
                   h |-> [id |-> U16(At(buf, 0), At(buf, 1)),
                          qr |-> QrOfId(f1 \div 128),
                          opcode |-> OpCodeOfId(op),
                          aa |-> (f1 \div 4) % 2,
                          tc |-> (f1 \div 2) % 2,
                          rd |-> f1 % 2,
                          ra |-> f2 \div 128,
                          z |-> (f2 \div 16) % 8,
                          rcode |-> ResponseCodeOfId(rc),
                          qdcount |-> U16(At(buf, 4), At(buf, 5)),
                          ancount |-> U16(At(buf, 6), At(buf, 7)),
                          nscount |-> U16(At(buf, 8), At(buf, 9)),
                          arcount |-> U16(At(buf, 10), At(buf, 11))]]

\* ------------------------------------------------------------ Question codec

\* #[deku(until = "|v: &u8| *v == 0")]: the offset of the first zero byte at or
\* after off, -1 when the input ends first
ScanZero(buf, off) ==
    LET n == Len(buf.data)
        z == IF off > n THEN off ELSE n     \* the first byte past data, at or after off
        zeros == { i \in off..(n - 1) : buf.data[i + 1] = 0 }
    IN  IF zeros # {} THEN CHOOSE i \in zeros : \A j \in zeros : i <= j
        ELSE IF z < buf.len THEN z
        ELSE -1

\* Question::new
NewQuestion(qname, qtype, qclass) == [qname |-> qname, qtype |-> qtype, qclass |-> qclass]

\* #[derive(DekuRead)] Question::from_bytes((buf, 8 * off)): qname up to and
\* including the first zero byte, then qtype and qclass, each a known id
ReadQuestion(buf, off) ==
    LET z == ScanZero(buf, off)
    IN  IF z = -1 \/ z + 4 >= buf.len THEN [ok |-> FALSE]
        ELSE LET t == U16(At(buf, z + 1), At(buf, z + 2))
                 c == U16(At(buf, z + 3), At(buf, z + 4))
             IN  IF t \notin QtypeIds \/ c \notin QclassIds THEN [ok |-> FALSE]
                 ELSE [ok |-> TRUE,
                       q |-> NewQuestion(Slice(buf, off, z + 1), QtypeOfId(t), QclassOfId(c)),
                       next |-> z + 5]

\* #[derive(DekuWrite)] Question
WriteQuestion(q) == q.qname \o BE16(QtypeId(q.qtype)) \o BE16(QclassId(q.qclass))

\* ------------------------------------------------------------ ResourceRecord codec

\* ResourceRecord::new: rdlength: rdata.len() as u16
NewResourceRecord(name, type_, class, ttl, rdata) ==
    [name |-> name, type_ |-> type_, class |-> class, ttl |-> ttl,
     rdlength |-> Len(rdata) % 65536, rdata |-> rdata]

\* #[derive(DekuRead)] ResourceRecord at byte offset off
ReadResourceRecord(buf, off) ==
    LET z == ScanZero(buf, off)
    IN  IF z = -1 \/ z + 10 >= buf.len THEN [ok |-> FALSE]
        ELSE LET t == U16(At(buf, z + 1), At(buf, z + 2))
                 c == U16(At(buf, z + 3), At(buf, z + 4))
                 ttl == U32(At(buf, z + 5), At(buf, z + 6), At(buf, z + 7), At(buf, z + 8))
                 rdl == U16(At(buf, z + 9), At(buf, z + 10))
             IN  IF t \notin QtypeIds \/ c \notin QclassIds \/ z + 11 + rdl > buf.len
                 THEN [ok |-> FALSE]
                 ELSE [ok |-> TRUE,
                       rr |-> [name |-> Slice(buf, off, z + 1), type_ |-> QtypeOfId(t),
                               class |-> QclassOfId(c), ttl |-> ttl, rdlength |-> rdl,
                               rdata |-> Slice(buf, z + 11, z + 11 + rdl)],
                       next |-> z + 11 + rdl]

\* #[derive(DekuWrite)] ResourceRecord
WriteResourceRecord(rr) ==
    rr.name \o BE16(QtypeId(rr.type_)) \o BE16(QclassId(rr.class)) \o BE32(rr.ttl)
    \o BE16(rr.rdlength) \o rr.rdata

\* ------------------------------------------------------------ Message codec

\* #[deku(count = "header.qdcount")] question: Vec<Question>
RECURSIVE ReadQuestions(_, _, _, _)
ReadQuestions(buf, off, n, acc) ==
    IF n = 0 THEN [ok |-> TRUE, list |-> acc, next |-> off]
    ELSE LET r == ReadQuestion(buf, off)
         IN  IF ~r.ok THEN [ok |-> FALSE]
             ELSE ReadQuestions(buf, r.next, n - 1, Append(acc, r.q))

\* #[deku(count = "header.ancount")] answer: Vec<ResourceRecord>
RECURSIVE ReadResourceRecords(_, _, _, _)
ReadResourceRecords(buf, off, n, acc) ==
    IF n = 0 THEN [ok |-> TRUE, list |-> acc, next |-> off]
    ELSE LET r == ReadResourceRecord(buf, off)
         IN  IF ~r.ok THEN [ok |-> FALSE]
             ELSE ReadResourceRecords(buf, r.next, n - 1, Append(acc, r.rr))

\* #[derive(DekuRead)] Message::from_bytes((buf, 0))
ReadMessage(buf) ==
    LET rh == ReadHeader(buf)
    IN  IF ~rh.ok THEN [ok |-> FALSE]
        ELSE LET rq == ReadQuestions(buf, HEADER_LEN, rh.h.qdcount, <<>>)
             IN  IF ~rq.ok THEN [ok |-> FALSE]
                 ELSE LET ra == ReadResourceRecords(buf, rq.next, rh.h.ancount, <<>>)
                      IN  IF ~ra.ok THEN [ok |-> FALSE]
                          ELSE [ok |-> TRUE,
                                msg |-> [header |-> rh.h, question |-> rq.list,
                                         answer |-> ra.list],
                                next |-> ra.next]

\* #[derive(DekuWrite)] Message: the header, then every element of both vectors
\* (a count attribute only steers reading)
WriteMessage(m) ==
    WriteHeader(m.header)
    \o Flatten([i \in 1..Len(m.question) |-> WriteQuestion(m.question[i])])
    \o Flatten([i \in 1..Len(m.answer) |-> WriteResourceRecord(m.answer[i])])

\* ------------------------------------------------------------ parse_question (conn.rs)

\* a faulty scan, for comparison: a zero byte does not stop it
ScanPtrIgnoresZero(buf, off) ==
    LET Stops(i) == At(buf, i) >= PTR_MIN
        n == Len(buf.data)
    IN  IF \E i \in off..(n - 1) : Stops(i)
        THEN LET k == CHOOSE i \in off..(n - 1) :
                          Stops(i) /\ \A j \in off..(i - 1) : ~Stops(j)
             IN  [stop |-> "ptr", at |-> k]
        ELSE [stop |-> "end", at |-> buf.len]

\* conn.rs 153-163: "for b in rest": the first byte at or after off that is zero
\* (ZeroByte) or >= 192 (break); "end" when rest is used up first
ScanPtr(buf, off) ==
    LET Stops(i) == At(buf, i) = 0 \/ At(buf, i) >= PTR_MIN
        n == Len(buf.data)
        z == IF off > n THEN off ELSE n
    IN  IF \E i \in off..(n - 1) : Stops(i)
        THEN LET k == CHOOSE i \in off..(n - 1) :
                          Stops(i) /\ \A j \in off..(i - 1) : ~Stops(j)
             IN  [stop |-> IF At(buf, k) = 0 THEN "zero" ELSE "ptr", at |-> k]
        ELSE IF z < buf.len THEN [stop |-> "zero", at |-> z]
        ELSE [stop |-> "end", at |-> buf.len]

\* conn.rs 151, 160, 166: offset_hi starts as 0u8 and is only ever masked
\* (offset_hi &= 0x3f), the pointer byte b is never stored in it
Jump(b, offset_lo) ==
    LET offset_hi == 0 % 64
    IN  U16(offset_hi, offset_lo)

\* conn.rs 144-181: the Err arm, a compressed question in rest = buf[off..]
ParseCompressed(buf, off) ==
    LET s == ScanPtr(buf, off)
        k == s.at
    IN  IF s.stop = "zero" THEN [res |-> "ZeroByte"]
        ELSE IF s.stop = "end" \/ k + 1 >= buf.len THEN [res |-> "panic"]
        ELSE LET jump == Jump(At(buf, k), At(buf, k + 1))
                 qq == ReadQuestion(buf, jump)
             IN  IF ~qq.ok THEN [res |-> "DekuError"]
                 ELSE IF k + 5 >= buf.len THEN [res |-> "panic"]
                 ELSE LET qtype == U16(At(buf, k + 2), At(buf, k + 3))
                          qclass == U16(At(buf, k + 4), At(buf, k + 5))
                      IN  IF qtype \notin QtypeIds THEN [res |-> "QtypeError"]
                          ELSE IF qclass \notin QclassIds THEN [res |-> "QclassError"]
                          ELSE [res |-> "ok",
                                q |-> NewQuestion(Slice(buf, off, k) \o qq.q.qname,
                                                  QtypeOfId(qtype), QclassOfId(qclass)),
                                next |-> k + 6]

\* conn.rs 140-185: "for _qi in 1..qheader.qdcount", n iterations left
RECURSIVE ParseRest(_, _, _, _)
ParseRest(buf, off, n, questions) ==
    IF n <= 0 THEN [res |-> "ok", questions |-> questions]
    ELSE LET u == ReadQuestion(buf, off)
         IN  IF u.ok THEN ParseRest(buf, u.next, n - 1, Append(questions, u.q))
             ELSE LET c == ParseCompressed(buf, off)
                  IN  IF c.res = "ok"
                      THEN ParseRest(buf, c.next, n - 1, Append(questions, c.q))
                      ELSE [res |-> c.res, questions |-> questions]

\* conn.rs 129-187: the first question is read whatever qdcount is
parse_question(buf, off, qdcount) ==
    LET first == ReadQuestion(buf, off)
    IN  IF ~first.ok THEN [res |-> "DekuError", questions |-> <<>>]
        ELSE ParseRest(buf, first.next, qdcount - 1, <<first.q>>)

\* ------------------------------------------------------------ handle_request (conn.rs)

\* a faulty response code, for comparison: NoError whatever the opcode
RcodeNoError(qheader) == "NoError"

\* conn.rs 43-48: the response code
Rcode(qheader) == IF qheader.opcode = "Query" THEN "NoError" ELSE "NotImplemented"

\* a faulty rheader, for comparison: the query's AA, TC, RA and Z are echoed
ResponseHeaderEchoFlags(qheader) ==
    [id |-> qheader.id, qr |-> "Response", opcode |-> qheader.opcode,
     aa |-> qheader.aa, tc |-> qheader.tc, rd |-> qheader.rd, ra |-> qheader.ra, z |-> qheader.z,
     rcode |-> Rcode(qheader),
     qdcount |-> qheader.qdcount, ancount |-> qheader.qdcount,
     nscount |-> 0, arcount |-> 0]

\* conn.rs 50-64: rheader
ResponseHeader(qheader) ==
    [id |-> qheader.id, qr |-> "Response", opcode |-> qheader.opcode,
     aa |-> 0, tc |-> 0, rd |-> qheader.rd, ra |-> 0, z |-> 0,
     rcode |-> Rcode(qheader),
     qdcount |-> qheader.qdcount, ancount |-> qheader.qdcount,
     nscount |-> 0, arcount |-> 0]

\* a faulty standalone rdata, for comparison: no address for the last question
StandaloneRdataOneShort(qs) == [i \in 1..(Len(qs) - 1) |-> ARBITRARY_IPV4]

\* conn.rs 103: rdata = vec![ARBITRARY_IPV4; questions.len()]
StandaloneRdata(qs) == [i \in 1..Len(qs) |-> ARBITRARY_IPV4]

\* faulty answers, for comparison: the addresses are paired with the questions
\* in reverse order
AnswersReversed(qs, rd) ==
    LET n == IF Len(qs) <= Len(rd) THEN Len(qs) ELSE Len(rd)
    IN  [i \in 1..n |-> NewResourceRecord(qs[i].qname, "A", "IN", TTL, rd[n + 1 - i])]

\* conn.rs 106-108: zip(questions, rdata) mapped to ResourceRecord::new
Answers(qs, rd) ==
    LET n == IF Len(qs) <= Len(rd) THEN Len(qs) ELSE Len(rd)
    IN  [i \in 1..n |-> NewResourceRecord(qs[i].qname, "A", "IN", TTL, rd[i])]

\* conn.rs 110-114: rmsg
ResponseMessage(qheader, qs, rd) ==
    [header |-> ResponseHeader(qheader), question |-> qs, answer |-> Answers(qs, rd)]

\* a faulty encoding step, for comparison: what does not fit is cut off
to_sliceCutShort(m) ==
    LET bytes == WriteMessage(m)
    IN  [ok |-> TRUE, bytes |-> IF Len(bytes) > BUFFER_LEN THEN Take(bytes, BUFFER_LEN) ELSE bytes]

\* conn.rs 117-118: rmsg.to_slice(&mut buf) with buf = [0u8; BUFFER_LEN]; fails
\* when the bytes do not fit buf
to_slice(m) ==
    LET bytes == WriteMessage(m)
    IN  IF Len(bytes) > BUFFER_LEN THEN [ok |-> FALSE] ELSE [ok |-> TRUE, bytes |-> bytes]

\* a faulty q_buf, for comparison: the client's flags byte is forwarded as it is
ForwardQueryKeepsFlags(buf, received, question) ==
    LET n == Len(question.qname)
    IN  IF received < HEADER_LEN \/ HEADER_LEN + n + 4 > received THEN [panic |-> TRUE]
        ELSE [panic |-> FALSE,
              data |-> [i \in 1..received |->
                          CASE i = 5 -> 0
                            [] i = 6 -> 1
                            [] i > HEADER_LEN /\ i <= HEADER_LEN + n -> question.qname[i - HEADER_LEN]
                            [] i > HEADER_LEN + n /\ i <= HEADER_LEN + n + 4 ->
                                   <<0, 1, 0, 1>>[i - HEADER_LEN - n]
                            [] OTHER -> buf.data[i]]]

\* conn.rs 73-81: q_buf, the received datagram with byte 2 set to 1, qdcount set
\* to 1 and the question written at offset 12; a slice past q_buf's end panics
ForwardQuery(buf, received, question) ==
    LET n == Len(question.qname)
    IN  IF received < HEADER_LEN \/ HEADER_LEN + n + 4 > received THEN [panic |-> TRUE]
        ELSE [panic |-> FALSE,
              data |-> [i \in 1..received |->
                          CASE i = 3 -> 1
                            [] i = 5 -> 0
                            [] i = 6 -> 1
                            [] i > HEADER_LEN /\ i <= HEADER_LEN + n -> question.qname[i - HEADER_LEN]
                            [] i > HEADER_LEN + n /\ i <= HEADER_LEN + n + 4 ->
                                   <<0, 1, 0, 1>>[i - HEADER_LEN - n]
                            [] OTHER -> buf.data[i]]]

\* ------------------------------------------------------------ the datagrams clients send

\* the largest question count a client's header announces, and the most
\* question entries a client writes after the header
MaxQd == 3
MaxItems == 3

NameA == <<1, 97, 0>>
NameBC == <<1, 98, 1, 99, 0>>
\* four labels of 63 bytes: 257 bytes, so that what follows it starts past offset 255
LongName == Flatten([i \in 1..4 |-> <<63>> \o [j \in 1..63 |-> 120]]) \o <<0>>

\* one question entry on the wire: literal bytes (labels, with the closing zero
\* when the name is not compressed), a pointer (two bytes, or none), qtype, qclass
Item(lit, ptr, qtype, qclass) == [lit |-> lit, ptr |-> ptr, qtype |-> qtype, qclass |-> qclass]
ItemBytes(c) == c.lit \o c.ptr \o BE16(c.qtype) \o BE16(c.qclass)

\* the entries a client may write first, second and later
FirstItems ==
    { Item(NameA, <<>>, 1, 1), Item(NameBC, <<>>, 2, 1), Item(NameA, <<>>, 3, 1),
      Item(<<>>, <<192, 12>>, 1, 1) }
SecondItems ==
    { Item(NameA, <<>>, 1, 1), Item(NameBC, <<>>, 15, 1),
      Item(NameA, <<>>, 3, 1), Item(NameA, <<>>, 1, 2),
      Item(<<>>, <<192, 12>>, 1, 1), Item(<<1, 100>>, <<192, 12>>, 2, 1),
      Item(<<>>, <<192, 14>>, 15, 1), Item(<<>>, <<192, 19>>, 1, 1),
      Item(<<>>, <<193, 12>>, 1, 1), Item(<<>>, <<255, 12>>, 1, 1),
      Item(<<>>, <<192, 0>>, 1, 1),
      Item(<<>>, <<192, 12>>, 3, 1), Item(<<>>, <<192, 12>>, 1, 2) }
LaterItems ==
    { Item(NameBC, <<>>, 15, 1), Item(<<1, 100>>, <<192, 12>>, 2, 1),
      Item(<<>>, <<192, 19>>, 1, 1) }

ItemsAt(k) == IF k = 1 THEN FirstItems ELSE IF k = 2 THEN SecondItems ELSE LaterItems

Bodies ==
    UNION { { b \in [1..n -> FirstItems \cup SecondItems \cup LaterItems] :
                \A k \in 1..n : b[k] \in ItemsAt(k) } : n \in 1..MaxItems }

Input(id, f1, f2, qd, items, tail, keep) ==
    [id |-> id, f1 |-> f1, f2 |-> f2, qd |-> qd, items |-> items, tail |-> tail, keep |-> keep]

\* the bytes of a client's datagram, cut to what recv_from puts into buf
Datagram(i) ==
    LET all == BE16(i.id) \o <<i.f1, i.f2>> \o BE16(i.qd) \o <<0, 0, 0, 0, 0, 0>>
               \o Flatten([k \in 1..Len(i.items) |-> ItemBytes(i.items[k])]) \o i.tail
        n == IF Len(all) < i.keep THEN Len(all) ELSE i.keep
    IN  Take(all, n)

\* every value of the header's third byte (QR, OPCODE, AA, TC, RD) with two
\* fourth bytes (0; RA, Z and Refused set), and every RCODE, over one question
HeaderSweep ==
    { Input(19789, f1, f2, 1, <<Item(NameA, <<>>, 1, 1)>>, <<>>, BUFFER_LEN) :
        f1 \in 0..255, f2 \in {0, 245} }
    \cup { Input(19789, 1, f2, 1, <<Item(NameA, <<>>, 1, 1)>>, <<>>, BUFFER_LEN) : f2 \in 0..15 }

\* a name of 241 bytes (m = 47) or 242 bytes (m = 48)
EdgeName(m) ==
    Flatten([i \in 1..3 |-> <<63>> \o [j \in 1..63 |-> 120]]) \o <<m>> \o [j \in 1..m |-> 121] \o <<0>>

\* one question whose response is 512 bytes long, and one whose response is 514
Edge ==
    { Input(19789, 1, 0, 1, <<Item(EdgeName(m), <<>>, 1, 1)>>, <<>>, BUFFER_LEN) : m \in {47, 48} }

\* queries that are not standard queries, about NS and MX records
OtherOpcodes ==
    { Input(19789, f1, 0, 2, <<Item(NameBC, <<>>, 2, 1), Item(NameA, <<>>, 15, 1)>>, <<>>, BUFFER_LEN) :
        f1 \in {8, 16, 24} }

\* every question count over every body
BodySweep ==
    { Input(258, 1, 0, qd, b, <<>>, BUFFER_LEN) : qd \in 0..MaxQd, b \in Bodies }

\* a datagram cut short at every length
Truncated ==
    { Input(19789, 1, 0, 2, <<Item(NameA, <<>>, 1, 1), Item(<<1, 100>>, <<192, 12>>, 2, 1)>>, <<>>, n) :
        n \in 0..29 }

Fill(n) == [j \in 1..n |-> 97]

\* datagrams that fill the buffer: a second question of literal bytes up to a
\* pointer that sits at or near the buffer's last byte
Full ==
    { Input(19789, 1, 0, 2, <<Item(NameA, <<>>, 1, 1), Item(Fill(n), <<192, 12>>, 1, 1)>>, <<>>, BUFFER_LEN) :
        n \in (BUFFER_LEN - 26)..(BUFFER_LEN - 19) }

\* datagrams whose second question is a pointer to offset 256, where a name
\* stands after the question section
Page ==
    { Input(19789, 1, 0, 2, <<Item(NameA, <<>>, 1, 1), Item(lit, <<193, 0>>, 1, 1)>>,
            Fill(231 - Len(lit)) \o NameBC \o <<0, 1, 0, 1>>, BUFFER_LEN) :
        lit \in {<<>>, <<1, 100>>} }

\* datagrams with a name that starts past offset 255 and a pointer to it
Long ==
    { Input(19789, 1, 0, qd, <<Item(LongName, <<>>, 1, 1), Item(NameA, <<>>, 2, 1),
                               Item(lit, <<193, 17>>, 15, 1)>>, <<>>, BUFFER_LEN) :
        qd \in 0..MaxQd, lit \in {<<>>, <<1, 100>>} }

Inputs ==
    HeaderSweep \cup OtherOpcodes \cup Edge \cup BodySweep \cup Truncated \cup Full \cup Long \cup Page

Clients == {"c1", "c2"}

\* what arrives on the socket from clients: every input from the first client,
\* some also from the second
Arrivals ==
    { [i |-> i, src |-> "c1"] : i \in Inputs }
    \cup { [i |-> i, src |-> "c2"] : i \in Truncated \cup Full \cup Long }
Upstream == "upstream"

\* ------------------------------------------------------------ the datagrams the upstream sends

Reply(kind, addr) == [kind |-> kind, addr |-> addr]

\* an answer with a 4-byte address, no answer at all, an answer of 3 bytes, an
\* answer whose name is a compression pointer, an empty datagram; and a datagram
\* that is not the upstream's: a client sends an answer to a question nobody asked
Replies ==
    { Reply("a", <<8, 8, 8, 8>>), Reply("a", <<1, 2, 3, 4>>), Reply("none", <<>>),
      Reply("short", <<10, 0, 0>>), Reply("compressed", <<8, 8, 8, 8>>), Reply("empty", <<>>),
      Reply("stray", <<6, 6, 6, 6>>) }

\* who sent the datagram: recv_from takes whatever arrives on the one socket
ReplyFrom(r) == IF r.kind = "stray" THEN "c2" ELSE Upstream

\* the upstream's reply to the forwarded query fwd: its id and its question echoed
ReplyDatagram(r, fwd) ==
    LET rq == ReadQuestion(Exact(fwd), HEADER_LEN)
        hdr(an, rc) ==
            [id |-> U16(fwd[1], fwd[2]), qr |-> "Response", opcode |-> "Query",
             aa |-> 0, tc |-> 0, rd |-> 1, ra |-> 1, z |-> 0, rcode |-> rc,
             qdcount |-> 1, ancount |-> an, nscount |-> 0, arcount |-> 0]
    IN  IF r.kind = "stray"
        THEN WriteMessage([header |-> [id |-> 2313, qr |-> "Response", opcode |-> "Query",
                                       aa |-> 1, tc |-> 0, rd |-> 0, ra |-> 0, z |-> 0,
                                       rcode |-> "NoError", qdcount |-> 1, ancount |-> 1,
                                       nscount |-> 0, arcount |-> 0],
                           question |-> <<NewQuestion(<<1, 122, 0>>, "NS", "IN")>>,
                           answer |-> <<NewResourceRecord(<<1, 122, 0>>, "A", "IN", 1, r.addr)>>])
        ELSE IF r.kind = "empty" \/ ~rq.ok THEN <<>>
        ELSE IF r.kind = "none"
        THEN WriteMessage([header |-> hdr(0, "NameError"), question |-> <<rq.q>>, answer |-> <<>>])
        ELSE IF r.kind = "compressed"
        THEN WriteHeader(hdr(1, "NoError")) \o WriteQuestion(rq.q) \o <<192, 12>>
             \o BE16(1) \o BE16(1) \o BE32(300) \o BE16(4) \o r.addr
        ELSE WriteMessage([header |-> hdr(1, "NoError"), question |-> <<rq.q>>,
                           answer |-> <<NewResourceRecord(rq.q.qname, "A", "IN", 300, r.addr)>>])

\* ------------------------------------------------------------ state

VARIABLES
    resolver,   \* main.rs 19-25: "none", or the upstream's address
    pc,         \* where main_loop is: await, fwd_recv, returned, panicked, exited
    inp,        \* <<the input the client built>> (what the client meant), or <<>>
    query,      \* buf[..received]: the datagram of the request being handled
    source,     \* the address recv_from gave for it
    questions,  \* conn.rs 36: questions
    parsed,     \* whether parse_question (conn.rs 37) has returned Ok for this request
    rdata,      \* conn.rs 67: rdata
    rmsg,       \* conn.rs 110: <<rmsg>> once built
    out,        \* the datagrams sent for this request: [to, data], in order
    upl,        \* the replies received from the socket for this request, in order
    result,     \* what handle_request returned: none, Ok or the error's variant
    rt_pc, rt_msg, rt_bytes, rt_dec, \* the codec round trip: a Message, its bytes, their decoding
    rr_in, rr_out,  \* ResourceRecord::new: <<its arguments>>, <<the record it gave>>
    pqs         \* parse_question's loop (conn.rs 129-187): where it is, rest, the iterations left

vars == <<resolver, pc, inp, query, source, questions, parsed, rdata, rmsg, out, upl, result,
          rt_pc, rt_msg, rt_bytes, rt_dec, rr_in, rr_out, pqs, prev>>
rrvars == <<rr_in, rr_out>>
rtvars == <<rt_pc, rt_msg, rt_bytes, rt_dec>>
srvvars == <<resolver, pc, inp, query, source, questions, parsed, rdata, rmsg, out, upl, result>>

\* a faulty forwarding loop, for comparison: the queries for all the questions
\* still unanswered are sent before the first reply is awaited
ProceedAllAtOnce(buf, received, src, qheader, qs, rd, sent, sendok) ==
    IF resolver # "none" /\ Len(rd) < Len(qs)
    THEN LET fq(k) == ForwardQuery(buf, received, qs[k])
             todo == IF sent = <<>> THEN Len(qs) ELSE 0
         IN  IF \E k \in 1..Len(qs) : fq(k).panic
             THEN [pc |-> "panicked", result |-> "none", rdata |-> rd, rmsg |-> <<>>, out |-> sent]
             ELSE IF ~sendok
             THEN [pc |-> "returned", result |-> "SendError", rdata |-> rd, rmsg |-> <<>>, out |-> sent]
             ELSE [pc |-> "fwd_recv", result |-> "none", rdata |-> rd, rmsg |-> <<>>,
                   out |-> sent \o [k \in 1..todo |-> [to |-> resolver, data |-> fq(k).data]]]
    ELSE LET rdf == IF resolver = "none" THEN StandaloneRdata(qs) ELSE rd
             m == ResponseMessage(qheader, qs, rdf)
             wrote == to_slice(m)
         IN  IF ~wrote.ok
             THEN [pc |-> "returned", result |-> "DekuError", rdata |-> rdf, rmsg |-> <<m>>, out |-> sent]
             ELSE IF ~sendok
             THEN [pc |-> "returned", result |-> "SendError", rdata |-> rdf, rmsg |-> <<m>>, out |-> sent]
             ELSE [pc |-> "returned", result |-> "Ok", rdata |-> rdf, rmsg |-> <<m>>,
                   out |-> Append(sent, [to |-> src, data |-> wrote.bytes])]

\* a faulty last step, for comparison: the response is sent twice
ProceedSendsTwice(buf, received, src, qheader, qs, rd, sent, sendok) ==
    IF resolver # "none" /\ Len(rd) < Len(qs)
    THEN LET fq == ForwardQuery(buf, received, qs[Len(rd) + 1])
         IN  IF fq.panic
             THEN [pc |-> "panicked", result |-> "none", rdata |-> rd, rmsg |-> <<>>, out |-> sent]
             ELSE IF ~sendok
             THEN [pc |-> "returned", result |-> "SendError", rdata |-> rd, rmsg |-> <<>>, out |-> sent]
             ELSE [pc |-> "fwd_recv", result |-> "none", rdata |-> rd, rmsg |-> <<>>,
                   out |-> Append(sent, [to |-> resolver, data |-> fq.data])]
    ELSE LET rdf == IF resolver = "none" THEN StandaloneRdata(qs) ELSE rd
             m == ResponseMessage(qheader, qs, rdf)
             wrote == to_slice(m)
         IN  IF ~wrote.ok
             THEN [pc |-> "returned", result |-> "DekuError", rdata |-> rdf, rmsg |-> <<m>>, out |-> sent]
             ELSE IF ~sendok
             THEN [pc |-> "returned", result |-> "SendError", rdata |-> rdf, rmsg |-> <<m>>, out |-> sent]
             ELSE [pc |-> "returned", result |-> "Ok", rdata |-> rdf, rmsg |-> <<m>>,
                   out |-> sent \o <<[to |-> src, data |-> wrote.bytes],
                                     [to |-> src, data |-> wrote.bytes]>>]

\* conn.rs 69-123: from the top of the forwarding loop on, with rd the rdata
\* collected so far and sent the datagrams sent so far; sendok tells whether the
\* socket's send_to succeeds.  Gives the values the request's state takes when
\* handle_request next awaits recv_from, returns or panics.
Proceed(buf, received, src, qheader, qs, rd, sent, sendok) ==
    IF resolver # "none" /\ Len(rd) < Len(qs)
    THEN LET fq == ForwardQuery(buf, received, qs[Len(rd) + 1])
         IN  IF fq.panic
             THEN [pc |-> "panicked", result |-> "none", rdata |-> rd, rmsg |-> <<>>, out |-> sent]
             ELSE IF ~sendok
             THEN [pc |-> "returned", result |-> "SendError", rdata |-> rd, rmsg |-> <<>>, out |-> sent]
             ELSE [pc |-> "fwd_recv", result |-> "none", rdata |-> rd, rmsg |-> <<>>,
                   out |-> Append(sent, [to |-> resolver, data |-> fq.data])]
    ELSE LET rdf == IF resolver = "none" THEN StandaloneRdata(qs) ELSE rd
             m == ResponseMessage(qheader, qs, rdf)
             wrote == to_slice(m)
         IN  IF ~wrote.ok
             THEN [pc |-> "returned", result |-> "DekuError", rdata |-> rdf, rmsg |-> <<m>>, out |-> sent]
             ELSE IF ~sendok
             THEN [pc |-> "returned", result |-> "SendError", rdata |-> rdf, rmsg |-> <<m>>, out |-> sent]
             ELSE [pc |-> "returned", result |-> "Ok", rdata |-> rdf, rmsg |-> <<m>>,
                   out |-> Append(sent, [to |-> src, data |-> wrote.bytes])]

Init ==
    /\ resolver \in {"none", Upstream}
    /\ pc = "await"
    /\ inp = <<>>
    /\ query = <<>>
    /\ source = "nobody"
    /\ questions = <<>>
    /\ parsed = FALSE
    /\ rdata = <<>>
    /\ rmsg = <<>>
    /\ out = <<>>
    /\ upl = <<>>
    /\ result = "none"
    /\ rt_pc = "idle"
    /\ rt_msg = <<>>
    /\ rt_bytes = <<>>
    /\ rt_dec = <<>>
    /\ rr_in = <<>>
    /\ rr_out = <<>>
    /\ pqs = [pc |-> "idle"]
    /\ prev = <<>>

\* conn.rs 24-37, then Proceed: a client's datagram arrives while main_loop
\* awaits one
Recv(i, src, sendok) ==
    /\ pc = "await"
    /\ \E d \in {Datagram(i)} :
       \E buf \in {Buf(d)} :
       \E rh \in {ReadHeader(buf)} :
       \E pq \in {IF rh.ok THEN parse_question(buf, HEADER_LEN, rh.h.qdcount)
                   ELSE [res |-> "DekuError", questions |-> <<>>]} :
           /\ inp' = <<i>>
           /\ query' = d
           /\ source' = src
           /\ upl' = <<>>
           /\ parsed' = (rh.ok /\ pq.res = "ok")
           /\ IF ~rh.ok
              THEN /\ pc' = "returned" /\ result' = "DekuError"
                   /\ questions' = <<>> /\ rdata' = <<>> /\ rmsg' = <<>> /\ out' = <<>>
              ELSE IF pq.res = "panic"
              THEN /\ pc' = "panicked" /\ result' = "none"
                   /\ questions' = pq.questions /\ rdata' = <<>> /\ rmsg' = <<>> /\ out' = <<>>
              ELSE IF pq.res # "ok"
              THEN /\ pc' = "returned" /\ result' = pq.res
                   /\ questions' = pq.questions /\ rdata' = <<>> /\ rmsg' = <<>> /\ out' = <<>>
              ELSE \E o \in {Proceed(buf, Len(d), src, rh.h, pq.questions, <<>>, <<>>, sendok)} :
                   /\ pc' = o.pc /\ result' = o.result
                   /\ questions' = pq.questions /\ rdata' = o.rdata /\ rmsg' = o.rmsg
                   /\ out' = o.out
    /\ UNCHANGED <<resolver, rt_pc, rt_msg, rt_bytes, rt_dec, rr_in, rr_out, pqs, prev>>

\* conn.rs 89-99, then Proceed: a datagram arrives while handle_request awaits
\* the reply to a forwarded query
UpstreamReply(r, sendok) ==
    /\ pc = "fwd_recv"
    /\ \E r_buf \in {Buf(ReplyDatagram(r, out[Len(out)].data))} :
       \E answer \in {ReadMessage(r_buf)} :
       \E buf \in {Buf(query)} :
           /\ upl' = Append(upl, r)
           /\ IF ~answer.ok
              THEN /\ pc' = "returned" /\ result' = "DekuError"
                   /\ UNCHANGED <<rdata, rmsg, out>>
              ELSE IF Len(answer.msg.answer) = 0 \/ Len(answer.msg.answer[1].rdata) # 4
              THEN /\ pc' = "panicked" /\ result' = "none"
                   /\ UNCHANGED <<rdata, rmsg, out>>
              ELSE \E o \in {Proceed(buf, Len(query), source, ReadHeader(buf).h, questions,
                                     Append(rdata, answer.msg.answer[1].rdata), out, sendok)} :
                   /\ pc' = o.pc /\ result' = o.result
                   /\ rdata' = o.rdata /\ rmsg' = o.rmsg /\ out' = o.out
    /\ UNCHANGED <<resolver, inp, query, source, questions, parsed, rt_pc, rt_msg, rt_bytes, rt_dec,
                   rr_in, rr_out, pqs, prev>>

\* conn.rs 25-28 and 91-94, main.rs 44-48: recv_from fails and the process exits
RecvFail ==
    /\ pc \in {"await", "fwd_recv"}
    /\ pc' = "exited"
    /\ result' = "RecvError"
    /\ UNCHANGED <<resolver, inp, query, source, questions, parsed, rdata, rmsg, out, upl,
                   rt_pc, rt_msg, rt_bytes, rt_dec, rr_in, rr_out, pqs, prev>>

\* a faulty loop, for comparison: main_loop gives up a request whose reply has
\* not come and calls handle_request again
LoopOrTimeout ==
    /\ pc \in {"returned", "fwd_recv"}
    /\ pc' = "await"
    /\ inp' = <<>>
    /\ query' = <<>>
    /\ source' = "nobody"
    /\ questions' = <<>>
    /\ parsed' = FALSE
    /\ rdata' = <<>>
    /\ rmsg' = <<>>
    /\ out' = <<>>
    /\ upl' = <<>>
    /\ result' = "none"
    /\ UNCHANGED <<resolver, rt_pc, rt_msg, rt_bytes, rt_dec, rr_in, rr_out, pqs, prev>>

\* main.rs 41-55: handle_request has returned Ok or a non-receive error; its
\* locals are dropped and the loop calls it again
Loop ==
    /\ pc = "returned"
    /\ pc' = "await"
    /\ inp' = <<>>
    /\ query' = <<>>
    /\ source' = "nobody"
    /\ questions' = <<>>
    /\ parsed' = FALSE
    /\ rdata' = <<>>
    /\ rmsg' = <<>>
    /\ out' = <<>>
    /\ upl' = <<>>
    /\ result' = "none"
    /\ UNCHANGED <<resolver, rt_pc, rt_msg, rt_bytes, rt_dec, rr_in, rr_out, pqs, prev>>

Next ==
    \/ pc = "await" /\ \E a \in Arrivals, sendok \in BOOLEAN : Recv(a.i, a.src, sendok)
    \/ pc = "fwd_recv" /\ \E r \in Replies, sendok \in BOOLEAN : UpstreamReply(r, sendok)
    \/ RecvFail
    \/ Loop

Spec == Init /\ [][Next]_vars

\* the server when nothing arrives on the socket while handle_request awaits
\* the reply to a forwarded query (conn.rs 91-94): recv_from does not return
NextSilent ==
    \/ pc = "await" /\ \E a \in Arrivals, sendok \in BOOLEAN : Recv(a.i, a.src, sendok)
    \/ pc = "await" /\ RecvFail
    \/ Loop

SpecSilent == Init /\ [][NextSilent]_vars

\* ------------------------------------------------------------ the codec round trip

\* the most questions and the most records of a Message built in memory
MaxRtQuestions == 2
MaxRtAnswers == 2

RtQuestions ==
    { NewQuestion(<<0>>, "NS", "IN"), NewQuestion(NameA, "A", "IN"),
      NewQuestion(NameBC, "MX", "IN"), NewQuestion(NameBC, "A", "IN") }
RtRecords ==
    { NewResourceRecord(NameA, "A", "IN", TTL, <<1, 2, 3, 4>>),
      NewResourceRecord(<<0>>, "NS", "IN", 0, <<>>),
      NewResourceRecord(NameBC, "MX", "IN", 2147483647, <<0, 10, 192, 12, 0>>),
      NewResourceRecord(NameBC, "A", "IN", 65536, <<0>>) }

SeqsUpTo(S, n) == UNION { [1..k -> S] : k \in 0..n }

RtHeader(id, qr, opcode, fl, z, rcode, qs, as, ns, ar) ==
    [id |-> id, qr |-> qr, opcode |-> opcode, aa |-> fl[1], tc |-> fl[2], rd |-> fl[3],
     ra |-> fl[4], z |-> z, rcode |-> rcode,
     qdcount |-> Len(qs), ancount |-> Len(as), nscount |-> ns, arcount |-> ar]

\* well-formed Messages: every header over one body, one header over every body
RtMessages ==
    { [header |-> RtHeader(id, qr, opcode, fl, z, rcode, qs, as, c[1], c[2]),
       question |-> qs, answer |-> as] :
        id \in {258, 65535}, qr \in {"Query", "Response"}, opcode \in OpCodes,
        fl \in {<<0, 0, 0, 0>>, <<1, 0, 0, 1>>, <<0, 1, 1, 0>>, <<1, 1, 1, 1>>},
        z \in {0, 5}, rcode \in ResponseCodes, c \in {<<0, 0>>, <<3, 513>>},
        qs \in {<<NewQuestion(NameA, "A", "IN")>>},
        as \in {<<NewResourceRecord(NameA, "A", "IN", TTL, <<1, 2, 3, 4>>)>>} }
    \cup
    { [header |-> RtHeader(19789, "Response", "Query", <<0, 0, 1, 0>>, 0, "NoError", qs, as, 0, 0),
       question |-> qs, answer |-> as] :
        qs \in SeqsUpTo(RtQuestions, MaxRtQuestions), as \in SeqsUpTo(RtRecords, MaxRtAnswers) }

InitRT ==
    /\ resolver = "none"
    /\ pc = "await"
    /\ inp = <<>>
    /\ query = <<>>
    /\ source = "nobody"
    /\ questions = <<>>
    /\ parsed = FALSE
    /\ rdata = <<>>
    /\ rmsg = <<>>
    /\ out = <<>>
    /\ upl = <<>>
    /\ result = "none"
    /\ rt_pc = "built"
    /\ rt_msg \in { <<m>> : m \in RtMessages }
    /\ rt_bytes = <<>>
    /\ rt_dec = <<>>
    /\ rr_in = <<>>
    /\ rr_out = <<>>
    /\ pqs = [pc |-> "idle"]
    /\ prev = <<>>

\* Message::to_bytes
RtEncode ==
    /\ rt_pc = "built"
    /\ rt_bytes' = WriteMessage(rt_msg[1])
    /\ rt_pc' = "encoded"
    /\ UNCHANGED <<rt_msg, rt_dec>>
    /\ UNCHANGED <<srvvars, rrvars, pqs, prev>>

\* Message::from_bytes((&bytes, 0))
RtDecode ==
    /\ rt_pc = "encoded"
    /\ rt_dec' = <<ReadMessage(Exact(rt_bytes))>>
    /\ rt_pc' = "decoded"
    /\ UNCHANGED <<rt_msg, rt_bytes>>
    /\ UNCHANGED <<srvvars, rrvars, pqs, prev>>

NextRT == RtEncode \/ RtDecode

SpecRT == InitRT /\ [][NextRT]_vars

\* ------------------------------------------------------------ ResourceRecord::new

\* rdata lengths around the ends of u8 and of u16
RdataLens == {0, 1, 4, 5, 255, 256, 65535, 65536, 65537}

\* the arguments ResourceRecord::new is called with
RrArgs ==
    { [name |-> n, type_ |-> t, class |-> "IN", ttl |-> ttl, rdata |-> Fill(l)] :
        n \in {<<0>>, NameA, NameBC}, t \in Qtypes, ttl \in {0, TTL}, l \in RdataLens }

InitRR ==
    /\ resolver = "none"
    /\ pc = "await"
    /\ inp = <<>>
    /\ query = <<>>
    /\ source = "nobody"
    /\ questions = <<>>
    /\ parsed = FALSE
    /\ rdata = <<>>
    /\ rmsg = <<>>
    /\ out = <<>>
    /\ upl = <<>>
    /\ result = "none"
    /\ rt_pc = "idle"
    /\ rt_msg = <<>>
    /\ rt_bytes = <<>>
    /\ rt_dec = <<>>
    /\ rr_in \in { <<a>> : a \in RrArgs }
    /\ rr_out = <<>>
    /\ pqs = [pc |-> "idle"]
    /\ prev = <<>>

\* message.rs 366-375: ResourceRecord::new(name, type_, class, ttl, rdata)
RrNew ==
    /\ rr_out = <<>>
    /\ rr_out' = <<NewResourceRecord(rr_in[1].name, rr_in[1].type_, rr_in[1].class,
                                     rr_in[1].ttl, rr_in[1].rdata)>>
    /\ UNCHANGED <<srvvars, rtvars, rr_in, pqs, prev>>

NextRR == RrNew

SpecRR == InitRR /\ [][NextRR]_vars

\* ------------------------------------------------------------ parse_question, step by step

\* datagrams whose pointers point at themselves, at each other, forward, or at
\* a name that ends with a pointer.  The first question takes offsets 12..18,
\* the second entry starts at 19, a third (after a bare pointer) at 25.
Loops ==
    { Input(4660, 1, 0, qd, items, tail, BUFFER_LEN) :
        qd \in {2, 3, 65535},
        items \in { <<Item(NameA, <<>>, 1, 1), Item(<<>>, <<192, 19>>, 1, 1)>>,
                    <<Item(NameA, <<>>, 1, 1), Item(<<1, 100>>, <<192, 21>>, 1, 1)>>,
                    <<Item(NameA, <<>>, 1, 1), Item(<<1, 100>>, <<192, 19>>, 1, 1)>>,
                    <<Item(NameA, <<>>, 1, 1), Item(<<>>, <<192, 25>>, 1, 1),
                      Item(<<>>, <<192, 19>>, 1, 1)>>,
                    <<Item(NameA, <<>>, 1, 1), Item(<<>>, <<192, 12>>, 1, 1),
                      Item(<<>>, <<192, 19>>, 1, 1)>>,
                    <<Item(NameA, <<>>, 1, 1), Item(<<>>, <<192, 25>>, 1, 1)>>,
                    <<Item(NameA, <<>>, 1, 1), Item(<<>>, <<192, 200>>, 1, 1)>> },
        tail \in { <<>>, NameBC \o <<0, 1, 0, 1>>, <<1, 100, 192, 12, 0, 1, 0, 1>>,
                   <<1, 100, 192, 25, 0, 0, 1, 0, 1>> } }

\* the datagrams parse_question is stepped through
ParseInputs == Loops \cup BodySweep \cup Truncated \cup Full \cup Long \cup Page

InitPQ ==
    /\ resolver = "none"
    /\ pc = "await"
    /\ inp = <<>>
    /\ query = <<>>
    /\ source = "nobody"
    /\ questions = <<>>
    /\ parsed = FALSE
    /\ rdata = <<>>
    /\ rmsg = <<>>
    /\ out = <<>>
    /\ upl = <<>>
    /\ result = "none"
    /\ rt_pc = "idle"
    /\ rt_msg = <<>>
    /\ rt_bytes = <<>>
    /\ rt_dec = <<>>
    /\ rr_in = <<>>
    /\ rr_out = <<>>
    /\ pqs = [pc |-> "idle"]
    /\ prev = <<>>

\* conn.rs 24-37: the datagram is in buf, the header is read and parse_question
\* is called with rest = buf[12..]
PqCall(i) ==
    /\ pqs.pc = "idle"
    /\ \E buf \in {Buf(Datagram(i))} :
       \E rh \in {ReadHeader(buf)} :
           /\ rh.ok
           /\ pqs' = [pc |-> "first", i |-> i, buf |-> buf, off |-> HEADER_LEN,
                      qdcount |-> rh.h.qdcount, left |-> 0, questions |-> <<>>,
                      res |-> "none"]
    /\ UNCHANGED <<srvvars, rtvars, rrvars, prev>>

\* conn.rs 135-138: the first question, read by Question::from_bytes; "?" returns
\* its error; then "for _qi in 1..qheader.qdcount" has qdcount - 1 iterations to make
PqFirst ==
    /\ pqs.pc = "first"
    /\ \E first \in {ReadQuestion(pqs.buf, pqs.off)} :
           pqs' = IF ~first.ok
                  THEN [pqs EXCEPT !.pc = "returned", !.res = "DekuError"]
                  ELSE [pqs EXCEPT !.pc = "loop", !.off = first.next,
                                   !.left = pqs.qdcount - 1, !.questions = <<first.q>>]
    /\ UNCHANGED <<srvvars, rtvars, rrvars, prev>>

\* conn.rs 140-185: one iteration of the for loop
PqIter ==
    /\ pqs.pc = "loop"
    /\ pqs.left > 0
    /\ \E u \in {ReadQuestion(pqs.buf, pqs.off)} :
           IF u.ok
           THEN pqs' = [pqs EXCEPT !.off = u.next, !.left = pqs.left - 1,
                                   !.questions = Append(pqs.questions, u.q)]
           ELSE \E c \in {ParseCompressed(pqs.buf, pqs.off)} :
                    pqs' = IF c.res = "ok"
                           THEN [pqs EXCEPT !.off = c.next, !.left = pqs.left - 1,
                                            !.questions = Append(pqs.questions, c.q)]
                           ELSE IF c.res = "panic"
                           THEN [pqs EXCEPT !.pc = "panicked"]
                           ELSE [pqs EXCEPT !.pc = "returned", !.res = c.res]
    /\ UNCHANGED <<srvvars, rtvars, rrvars, prev>>

\* conn.rs 186: the range is used up, Ok(())
PqReturn ==
    /\ pqs.pc = "loop"
    /\ pqs.left <= 0
    /\ pqs' = [pqs EXCEPT !.pc = "returned", !.res = "ok"]
    /\ UNCHANGED <<srvvars, rtvars, rrvars, prev>>

NextPQ ==
    \/ \E i \in ParseInputs : PqCall(i)
    \/ PqFirst
    \/ PqIter
    \/ PqReturn

SpecPQ == InitPQ /\ [][NextPQ]_vars

\* the executor keeps running the task that is inside parse_question
FairSpecPQ == SpecPQ /\ WF_vars(NextPQ)

\* ------------------------------------------------------------ one request after another

\* the datagrams of the standalone server's clients: cut short at every length,
\* filling the buffer, announcing more questions than they hold, not standard
\* queries, and with a header that does not decode (opcode 4, rcode 7)
SeqInputs ==
    Truncated \cup Full \cup OtherOpcodes
    \cup { i \in BodySweep : Len(i.items) = 1 }
    \cup { Input(19789, f[1], f[2], 1, <<Item(NameA, <<>>, 1, 1)>>, <<>>, BUFFER_LEN) :
             f \in {<<32, 0>>, <<1, 7>>, <<129, 0>>} }

InitSeq ==
    /\ resolver = "none"
    /\ pc = "await"
    /\ inp = <<>>
    /\ query = <<>>
    /\ source = "nobody"
    /\ questions = <<>>
    /\ parsed = FALSE
    /\ rdata = <<>>
    /\ rmsg = <<>>
    /\ out = <<>>
    /\ upl = <<>>
    /\ result = "none"
    /\ rt_pc = "idle"
    /\ rt_msg = <<>>
    /\ rt_bytes = <<>>
    /\ rt_dec = <<>>
    /\ rr_in = <<>>
    /\ rr_out = <<>>
    /\ pqs = [pc |-> "idle"]
    /\ prev = <<>>

\* main.rs 41-55, as Loop; the history remembers the request that has returned
LoopSeq ==
    /\ pc = "returned"
    /\ pc' = "await"
    /\ inp' = <<>>
    /\ query' = <<>>
    /\ source' = "nobody"
    /\ questions' = <<>>
    /\ parsed' = FALSE
    /\ rdata' = <<>>
    /\ rmsg' = <<>>
    /\ out' = <<>>
    /\ upl' = <<>>
    /\ result' = "none"
    /\ prev' = query
    /\ UNCHANGED <<resolver, rt_pc, rt_msg, rt_bytes, rt_dec, rr_in, rr_out, pqs>>

NextSeq ==
    \/ pc = "await" /\ \E i \in SeqInputs, src \in Clients, sendok \in BOOLEAN : Recv(i, src, sendok)
    \/ pc = "await" /\ RecvFail
    \/ LoopSeq

SpecSeq == InitSeq /\ [][NextSeq]_vars

\* ------------------------------------------------------------ what the claims speak of

\* the datagrams of this request sent to a client, and to the upstream
ToClient(e) == e.to \in Clients
ToUpstream(e) == e.to = Upstream
ClientSends == SelectSeq(out, ToClient)
UpstreamSends == SelectSeq(out, ToUpstream)

\* fields of a datagram's header, read from its bytes
IdOf(d) == <<d[1], d[2]>>
QrOf(d) == d[3] \div 128
OpcodeOf(d) == (d[3] \div 8) % 16
AaOf(d) == (d[3] \div 4) % 2
TcOf(d) == (d[3] \div 2) % 2
RdOf(d) == d[3] % 2
RaOf(d) == d[4] \div 128
ZOf(d) == (d[4] \div 16) % 8
RcodeOf(d) == d[4] % 16
QdcountOf(d) == U16(d[5], d[6])
AncountOf(d) == U16(d[7], d[8])
NscountOf(d) == U16(d[9], d[10])
ArcountOf(d) == U16(d[11], d[12])

\* the sections of the datagram d read as nq questions and na records
ReadSections(d, nq, na) ==
    LET rq == ReadQuestions(Exact(d), HEADER_LEN, nq, <<>>)
    IN  IF ~rq.ok THEN [ok |-> FALSE]
        ELSE LET ra == ReadResourceRecords(Exact(d), rq.next, na, <<>>)
             IN  IF ~ra.ok THEN [ok |-> FALSE]
                 ELSE [ok |-> TRUE, question |-> rq.list, answer |-> ra.list, next |-> ra.next]

\* the entries the client wrote, and where each starts in its datagram
ItemsSent == IF inp = <<>> THEN <<>> ELSE inp[1].items
RECURSIVE ItemOff(_, _)
ItemOff(items, k) ==
    IF k <= 1 THEN HEADER_LEN ELSE ItemOff(items, k - 1) + Len(ItemBytes(items[k - 1]))

\* an entry whose qtype and qclass the server supports
Supported(c) == c.qtype \in {1, 2, 15} /\ c.qclass = 1
\* a well-formed uncompressed question
Uncompressed(c) == c.ptr = <<>> /\ Supported(c)

\* the offsets, within the uncompressed name lit, at which a label starts
RECURSIVE LabelOffsets(_, _)
LabelOffsets(lit, p) ==
    IF p >= Len(lit) \/ lit[p + 1] = 0 THEN {}
    ELSE {p} \cup LabelOffsets(lit, p + 1 + lit[p + 1])

\* an uncompressed name of the client's datagram begins at offset t
NameBeginsAt(items, t) ==
    \E j \in 1..Len(items) :
        items[j].ptr = <<>> /\ (t - ItemOff(items, j)) \in LabelOffsets(items[j].lit, 0)

\* the zero-terminated name that starts at offset t of the datagram d
NameAt(d, t) == Slice(Exact(d), t, ScanZero(Exact(d), t) + 1)

\* ------------------------------------------------------------ C1

\* C1: in forwarding mode no more upstream queries are sent than questions were
\* decoded, the i-th is a one-question query carrying the name of question i, a
\* response goes out only after every question was answered, and once the
\* upstream has answered all N questions exactly N queries were sent and the
\* response (if it was sent) carries exactly N questions and N answers, answer i
\* naming question i with the address of the upstream's i-th reply as rdata.
ForwardingCorrelation ==
    resolver = Upstream =>
        LET n == Len(questions)
            ups == UpstreamSends
        IN  /\ Len(ups) <= n
            /\ \A i \in 1..Len(ups) :
                   LET d == ups[i].data
                       l == Len(questions[i].qname)
                   IN  /\ QdcountOf(d) = 1
                       /\ Len(d) >= HEADER_LEN + l + 4
                       /\ [j \in 1..l |-> d[HEADER_LEN + j]] = questions[i].qname
            /\ (ClientSends # <<>>) => Len(upl) = n
            /\ (pc = "returned" /\ n > 0 /\ Len(upl) = n /\ \A k \in 1..n : upl[k].kind = "a") =>
                   /\ Len(ups) = n
                   /\ \A k \in 1..Len(out) :
                          ToClient(out[k]) =>
                              LET b == ReadSections(out[k].data, n, n)
                              IN  /\ k = n + 1
                                  /\ out[k].to = source
                                  /\ b.ok
                                  /\ b.next = Len(out[k].data)
                                  /\ \A i \in 1..n :
                                         /\ b.answer[i].name = questions[i].qname
                                         /\ b.answer[i].rdata = upl[i].addr

\* three different questions answered with different addresses, response sent
ForwardingCorrelationWitness ==
    /\ resolver = Upstream
    /\ result = "Ok"
    /\ Len(questions) = 3
    /\ questions[1].qname = NameA
    /\ questions[2].qname = NameBC
    /\ questions[3].qname = <<1, 100>> \o NameA
    /\ upl = <<Reply("a", <<8, 8, 8, 8>>), Reply("a", <<1, 2, 3, 4>>), Reply("a", <<8, 8, 8, 8>>)>>
    /\ Len(ClientSends) = 1

\* ------------------------------------------------------------ C2

\* C2: every response sent to a client has the query's ID and RD bit, QR = 1,
\* the query's 4-bit OPCODE, and AA, TC, RA and Z equal to 0.
ResponseMirrorsHeader ==
    \A k \in 1..Len(out) :
        ToClient(out[k]) =>
            LET r == out[k].data
            IN  /\ Len(r) >= HEADER_LEN
                /\ IdOf(r) = IdOf(query)
                /\ RdOf(r) = RdOf(query)
                /\ QrOf(r) = 1
                /\ OpcodeOf(r) = OpcodeOf(query)
                /\ AaOf(r) = 0 /\ TcOf(r) = 0 /\ RaOf(r) = 0 /\ ZOf(r) = 0

\* a response to a query with a reserved opcode and AA, TC, RD, RA and Z all set
ResponseMirrorsHeaderWitness ==
    /\ ClientSends # <<>>
    /\ OpcodeOf(query) = 3
    /\ AaOf(query) = 1 /\ TcOf(query) = 1 /\ RdOf(query) = 1
    /\ RaOf(query) = 1 /\ ZOf(query) = 7
    /\ QrOf(query) = 0

\* ------------------------------------------------------------ C3

\* C3: the RCODE of every response sent to a client is NoError (0) when the
\* query's OPCODE is 0 and NotImplemented (4) otherwise, in either mode.
RcodeFollowsOpcode ==
    \A k \in 1..Len(out) :
        ToClient(out[k]) =>
            RcodeOf(out[k].data) = IF OpcodeOf(query) = 0 THEN 0 ELSE 4

\* a Status query answered in forwarding mode with NotImplemented and its own ID
RcodeFollowsOpcodeWitness ==
    /\ resolver = Upstream
    /\ ClientSends # <<>>
    /\ OpcodeOf(query) = 2
    /\ RcodeOf(ClientSends[1].data) = 4
    /\ IdOf(ClientSends[1].data) = <<77, 77>>
    /\ IdOf(query) = <<77, 77>>

\* ------------------------------------------------------------ C4

\* C4 (as claimed): in every response sent to a client the header's question
\* count is the number of questions serialized, its answer count the number of
\* records serialized, and its authority and additional counts are 0.
ResponseCountsMatchSections ==
    \A k \in 1..Len(out) :
        ToClient(out[k]) =>
            LET r == out[k].data
            IN  /\ r = WriteMessage(rmsg[1])
                /\ QdcountOf(r) = Len(rmsg[1].question)
                /\ AncountOf(r) = Len(rmsg[1].answer)
                /\ NscountOf(r) = 0 /\ ArcountOf(r) = 0

\* ------------------------------------------------------------ C5

\* C5 (as claimed): when parse_question succeeds the list has as many questions
\* as the header's question count, in wire order, and every question written
\* uncompressed keeps its name bytes, its qtype and its qclass.
ParsedQuestionsMatchHeader ==
    parsed =>
        /\ Len(questions) = QdcountOf(query)
        /\ \A k \in 1..Len(questions) :
               (k <= Len(ItemsSent) /\ \A j \in 1..k : Uncompressed(ItemsSent[j])) =>
                   questions[k] = NewQuestion(ItemsSent[k].lit, QtypeOfId(ItemsSent[k].qtype), "IN")

\* ------------------------------------------------------------ C6

\* C6 (as claimed): a question after the first written as literal labels and a
\* pointer (b, next) to an offset inside the datagram where an uncompressed
\* name begins is decoded as those labels followed by the name at offset
\* ((b & 0x3F) << 8) | next, with its own qtype and qclass.
PointerExpandsToTarget ==
    parsed =>
        \A k \in 2..Len(questions) :
            LET c == IF k <= Len(ItemsSent) THEN ItemsSent[k] ELSE Item(<<>>, <<>>, 0, 0)
                target == IF c.ptr = <<>> THEN 0 ELSE (c.ptr[1] % 64) * 256 + c.ptr[2]
            IN  ( /\ k <= Len(ItemsSent)
                  /\ \A j \in 1..k : Supported(ItemsSent[j])
                  /\ c.ptr # <<>>
                  /\ target < Len(query)
                  /\ NameBeginsAt(ItemsSent, target) ) =>
                    questions[k] =
                        NewQuestion(c.lit \o NameAt(query, target), QtypeOfId(c.qtype), "IN")

\* ------------------------------------------------------------ C7

\* C7 (as claimed): handling a client's datagram never panics: the process ends
\* only when recv_from fails.
ClientDatagramNeverPanics ==
    /\ ~(pc = "panicked" /\ upl = <<>>)
    /\ pc = "exited" => result = "RecvError"

\* ------------------------------------------------------------ C8

\* C8: in standalone mode every datagram sent goes to the client, and the
\* response to a decoded query holds the decoded questions and, for each in
\* order, one record with its name, type A, class IN, TTL 60 and the rdata
\* 192.168.1.1, and nothing more.
StandaloneAnswers ==
    resolver = "none" =>
        /\ Len(out) <= 1
        /\ \A k \in 1..Len(out) : out[k].to = source /\ parsed /\ result = "Ok"
        /\ (parsed /\ result = "Ok") =>
               /\ Len(out) = 1
               /\ LET n == Len(questions)
                      b == ReadSections(out[1].data, n, n)
                  IN  /\ b.ok
                      /\ b.next = Len(out[1].data)
                      /\ \A i \in 1..n :
                             /\ b.question[i] = questions[i]
                             /\ b.answer[i] =
                                    [name |-> questions[i].qname, type_ |-> "A", class |-> "IN",
                                     ttl |-> 60, rdlength |-> 4, rdata |-> <<192, 168, 1, 1>>]

\* a standalone response to an NS and an MX question from the second client
StandaloneAnswersWitness ==
    /\ resolver = "none"
    /\ result = "Ok"
    /\ Len(out) = 1
    /\ Len(questions) = 2
    /\ questions[1] = NewQuestion(NameBC, "NS", "IN")
    /\ questions[2] = NewQuestion(NameBC, "MX", "IN")

\* ------------------------------------------------------------ C9

\* C9 (as claimed): a response with a non-zero RCODE carries no answer record
\* and an answer count of 0.
NonZeroRcodeHasNoAnswers ==
    \A k \in 1..Len(out) :
        (ToClient(out[k]) /\ RcodeOf(out[k].data) # 0) =>
            /\ AncountOf(out[k].data) = 0
            /\ Len(rmsg[1].answer) = 0

\* ------------------------------------------------------------ C10

\* C10: decoding the bytes a well-formed Message encodes to succeeds, uses up
\* all the bytes and gives the Message back, field by field.
RoundTrip ==
    rt_pc = "decoded" =>
        /\ rt_dec[1].ok
        /\ rt_dec[1].next = Len(rt_bytes)
        /\ rt_dec[1].msg.header = rt_msg[1].header
        /\ rt_dec[1].msg.question = rt_msg[1].question
        /\ rt_dec[1].msg.answer = rt_msg[1].answer

\* a Message with two questions and two records (one with zero and pointer
\* bytes in its rdata) has been encoded and decoded
RoundTripWitness ==
    /\ rt_pc = "decoded"
    /\ Len(rt_msg[1].question) = 2
    /\ Len(rt_msg[1].answer) = 2
    /\ rt_msg[1].answer[2].rdata = <<0, 10, 192, 12, 0>>
    /\ Len(rt_bytes) > HEADER_LEN

\* ------------------------------------------------------------ C11

\* C11 (as claimed): the record ResourceRecord::new gives has the rdata it was
\* given and an rdlength equal to the number of bytes of that rdata, whatever
\* that number is.
RdlengthIsRdataLength ==
    rr_out # <<>> =>
        /\ rr_out[1].rdata = rr_in[1].rdata
        /\ rr_out[1].rdlength = Len(rr_in[1].rdata)

\* ------------------------------------------------------------ C12

RECURSIVE LabelsFrom(_, _)
LabelsFrom(n, p) ==
    IF p >= Len(n) THEN FALSE
    ELSE IF n[p + 1] = 0 THEN p + 1 = Len(n)
    ELSE IF n[p + 1] > 63 THEN FALSE
    ELSE LabelsFrom(n, p + 1 + n[p + 1])

\* a full, uncompressed name whose only zero byte is its last byte
FullName(n) == LabelsFrom(n, 0) /\ \A j \in 1..(Len(n) - 1) : n[j] # 0

\* C13 (as claimed): every name of a response sent to a client, in the question
\* and in the answer section, is a sequence of length-prefixed labels ended by
\* its only zero byte, with no compression pointer in it.
ResponseNamesUncompressed ==
    \A k \in 1..Len(out) :
        ToClient(out[k]) =>
            /\ out[k].data = WriteMessage(rmsg[1])
            /\ \A i \in 1..Len(rmsg[1].question) : FullName(rmsg[1].question[i].qname)
            /\ \A i \in 1..Len(rmsg[1].answer) : FullName(rmsg[1].answer[i].name)

\* ------------------------------------------------------------ C14

\* C14: when the questions before the k-th (k >= 2) are well-formed uncompressed
\* questions and the k-th is not (its qtype or qclass is unsupported, or only
\* the buffer's zero padding is there), so that a zero byte comes before any
\* pointer byte, handle_request returns the ZeroByte error and has sent nothing,
\* although k - 1 questions were decoded; and whenever it returns ZeroByte it
\* has sent nothing and built no response.
ZeroByteAbandons ==
    /\ result = "ZeroByte" => (pc = "returned" /\ out = <<>> /\ rmsg = <<>> /\ ~parsed)
    /\ inp # <<>> =>
          LET i == inp[1]
              whole == Len(query) = HEADER_LEN + Len(Flatten([k \in 1..Len(i.items) |->
                                                               ItemBytes(i.items[k])]))
              Broken(k) ==
                  /\ \A j \in 1..(k - 1) : j <= Len(i.items) /\ Uncompressed(i.items[j])
                  /\ \/ k > Len(i.items)
                     \/ k <= Len(i.items) /\ i.items[k].ptr = <<>> /\ ~Supported(i.items[k])
          IN  ( /\ whole
                /\ OpcodeOf(query) \in OpCodeIds /\ RcodeOf(query) \in ResponseCodeIds
                /\ \E k \in 2..i.qd : Broken(k) ) =>
                  /\ result = "ZeroByte"
                  /\ pc = "returned"
                  /\ out = <<>>
                  /\ \E k \in 2..i.qd : Broken(k) /\ Len(questions) = k - 1

\* in forwarding mode a first question was decoded, the second has an
\* unsupported qclass, and the request ended with ZeroByte and nothing sent
ZeroByteAbandonsWitness ==
    /\ resolver = Upstream
    /\ result = "ZeroByte"
    /\ questions = <<NewQuestion(NameA, "A", "IN")>>
    /\ Len(ItemsSent) >= 2
    /\ ItemsSent[2] = Item(NameA, <<>>, 1, 2)
    /\ out = <<>>

\* ------------------------------------------------------------ C15

\* the number of bytes of the response to the decoded questions: the header,
\* each question (name, 4 bytes) and each answer (name, 10 bytes, 4 of rdata)
ResponseSize ==
    HEADER_LEN + 18 * Len(questions)
    + 2 * Len(Flatten([k \in 1..Len(questions) |-> questions[k].qname]))

\* C15: when the response built for a request would take more than 512 bytes,
\* handle_request returns the encoding error to main_loop, which can go on, and
\* nothing is sent to the client; no datagram sent to a client is longer than
\* 512 bytes or has the TC bit set, and a response of exactly 512 bytes is sent
\* whole.
OversizeResponseNotSent ==
    /\ \A k \in 1..Len(out) :
           ToClient(out[k]) =>
               /\ Len(out[k].data) <= 512
               /\ Len(out[k].data) = ResponseSize
               /\ TcOf(out[k].data) = 0
    /\ (rmsg # <<>> /\ ResponseSize > 512) =>
           /\ ClientSends = <<>>
           /\ result = "DekuError"
           /\ pc = "returned"
           /\ ENABLED Loop

\* in forwarding mode the upstream answered the one question, the response
\* would have taken 514 bytes, and the request ended with no response
OversizeResponseNotSentWitness ==
    /\ resolver = Upstream
    /\ Len(upl) = 1
    /\ rmsg # <<>>
    /\ ResponseSize = 514
    /\ result = "DekuError"
    /\ ClientSends = <<>>

\* ------------------------------------------------------------ C16

\* C16: in forwarding mode at most one forwarded query is unanswered at any
\* moment: the queries sent number at most one more than the datagrams received
\* in reply, exactly one more while handle_request awaits a reply, and the
\* query for question i + 1 has been sent only if i replies were received.
SequentialForwarding ==
    /\ Len(UpstreamSends) <= Len(upl) + 1
    /\ Len(UpstreamSends) <= Len(questions)
    /\ pc = "fwd_recv" => Len(UpstreamSends) = Len(upl) + 1
    /\ \A k \in 1..Len(out) : ToUpstream(out[k]) => Len(upl) >= k - 1
    /\ resolver = "none" => UpstreamSends = <<>>

\* the second of three questions has been forwarded after the reply to the
\* first, and the third has not been forwarded yet
SequentialForwardingWitness ==
    /\ pc = "fwd_recv"
    /\ Len(questions) = 3
    /\ Len(upl) = 1
    /\ Len(UpstreamSends) = 2

\* ------------------------------------------------------------ C17

\* C17 (as claimed): in forwarding mode, when a send to the upstream fails, or
\* the datagram received in reply cannot be decoded, has no answer record or
\* has an answer whose rdata is not 4 bytes long, handle_request returns an
\* error to main_loop, which can go on, and no response is sent to the client.
ForwardingFailureIsRequestFailure ==
    /\ (resolver = Upstream /\ result = "SendError" /\ rmsg = <<>>) =>
           (pc = "returned" /\ ClientSends = <<>> /\ ENABLED Loop)
    /\ (upl # <<>> /\ upl[Len(upl)].kind \in {"none", "short", "compressed", "empty"}) =>
           /\ pc = "returned"
           /\ result \notin {"none", "Ok"}
           /\ ClientSends = <<>>
           /\ ENABLED Loop

\* ------------------------------------------------------------ C18

\* C18 (as claimed): when the header or a question of a client's datagram
\* cannot be decoded, no datagram is sent for the request, neither to the client
\* nor to the upstream, whatever was decoded before, and handle_request returns
\* the error to main_loop, which can go on.
DecodeFailureSendsNothing ==
    (inp # <<>> /\ ~parsed) =>
        /\ out = <<>>
        /\ pc \in {"returned", "exited"}
        /\ pc = "returned" =>
               /\ result \in {"DekuError", "ZeroByte", "QtypeError", "QclassError"}
               /\ ENABLED Loop
        /\ pc = "exited" => result = "RecvError"

\* ------------------------------------------------------------ C19

\* C19: for each client datagram at most one response is sent; it goes to the
\* address the datagram came from, is the last datagram of the request, is the
\* encoding of the message built from the decoded questions, and is sent only
\* when every query forwarded has had its reply and handle_request returns; a
\* client datagram becomes a new request only when main_loop awaits one, with
\* nothing of the previous request left, and what arrives while a reply is
\* awaited changes neither the request's datagram nor its source nor its
\* questions.
OneResponsePerRequest ==
    /\ [](/\ Len(ClientSends) <= 1
          /\ \A k \in 1..Len(out) :
                 ToClient(out[k]) =>
                     /\ out[k].to = source
                     /\ k = Len(out)
                     /\ parsed
                     /\ rmsg # <<>>
                     /\ out[k].data = WriteMessage(rmsg[1])
                     /\ rmsg[1].question = questions
                     /\ Len(upl) = Len(UpstreamSends)
                     /\ resolver = Upstream => Len(upl) = Len(questions)
                     /\ pc = "returned"
                     /\ result = "Ok")
    /\ [][/\ (inp' # inp /\ inp' # <<>>) => (pc = "await" /\ out = <<>> /\ inp = <<>>)
          /\ pc = "fwd_recv" => UNCHANGED <<inp, query, source, questions>>]_vars

\* the second client's two questions were forwarded, a datagram that was not
\* the upstream's was taken as the second reply, and the one response went to
\* the second client
OneResponsePerRequestWitness ==
    /\ resolver = Upstream
    /\ source = "c2"
    /\ Len(questions) = 2
    /\ Len(upl) = 2
    /\ upl[2].kind = "stray"
    /\ Len(out) = 3
    /\ out[3].to = "c2"

\* ------------------------------------------------------------ C20

\* C20: when nothing arrives on the socket while handle_request awaits the
\* reply to a forwarded query, it stays there for ever: no response has been
\* sent, and no step of the server changes anything from then on (no response,
\* no other client datagram handled, no time-out).
BlockedWithoutReply ==
    /\ [](pc = "fwd_recv" => (ClientSends = <<>> /\ result = "none"))
    /\ [][pc = "fwd_recv" => UNCHANGED vars]_vars

\* the first of two questions was forwarded and no reply has come
BlockedWithoutReplyWitness ==
    /\ resolver = Upstream
    /\ pc = "fwd_recv"
    /\ Len(questions) = 2
    /\ Len(UpstreamSends) = 1
    /\ upl = <<>>
    /\ ClientSends = <<>>

\* ------------------------------------------------------------ C21

\* C21: once parse_question has been called on a datagram it comes to an end
\* with a result or an error: it returns, Ok or Err, whatever the pointers of
\* the datagram point at.
QuestionDecodingEnds == (pqs.pc = "first") ~> (pqs.pc = "returned")

\* ------------------------------------------------------------ C22

\* C22: every datagram taken from the socket as the reply to a forwarded query
\* was sent by the upstream resolver, and every one an address was taken from
\* carries the transaction ID of the query it answers.
RepliesComeFromUpstream ==
    \A k \in 1..Len(upl) :
        /\ ReplyFrom(upl[k]) = Upstream
        /\ k <= Len(rdata) =>
               IdOf(ReplyDatagram(upl[k], UpstreamSends[k].data)) = IdOf(UpstreamSends[k].data)

\* ------------------------------------------------------------ C23

\* C23: in standalone mode, what a request ends with (its response or its
\* error, and the questions decoded) is what the same datagram from the same
\* client gives a server that has handled nothing before (a zeroed buf and
\* empty questions), whatever the request before it was.  Whether send_to
\* succeeds is the socket's matter: when it fails, the first request would
\* have sent a response.
NothingPersists ==
    (resolver = "none" /\ pc \in {"returned", "panicked"}) =>
        LET buf == [data |-> query, len |-> BUFFER_LEN]
            rh == ReadHeader(buf)
            pq == parse_question(buf, HEADER_LEN, rh.h.qdcount)
            o == Proceed(buf, Len(query), source, rh.h, pq.questions, <<>>, <<>>, TRUE)
        IN  IF ~rh.ok
            THEN pc = "returned" /\ result = "DekuError" /\ out = <<>> /\ questions = <<>>
            ELSE IF pq.res = "panic"
            THEN pc = "panicked" /\ out = <<>> /\ questions = pq.questions
            ELSE IF pq.res # "ok"
            THEN pc = "returned" /\ result = pq.res /\ out = <<>> /\ questions = pq.questions
            ELSE /\ pc = o.pc
                 /\ questions = pq.questions
                 /\ rmsg = o.rmsg
                 /\ \/ result = o.result /\ out = o.out
                    \/ result = "SendError" /\ o.result = "Ok" /\ out = <<>>

\* a datagram that announces more questions than it holds, so that the bytes of
\* buf past it are read, was handled after one that filled the buffer: it got
\* no response
NothingPersistsWitness ==
    /\ resolver = "none"
    /\ pc = "returned"
    /\ result = "ZeroByte"
    /\ out = <<>>
    /\ Len(prev) = BUFFER_LEN
    /\ Len(query) < Len(prev)
    /\ QdcountOf(query) > Len(ItemsSent)

====
